---- MODULE Spec2Model ----
(***************************************************************************)
(* Sales analytics system: the transaction parser, the validator/filter,   *)
(* the aggregation functions and the report writer of                      *)
(* utils/data_processor.py.                                                *)
(*                                                                         *)
(* Strings are sequences of one-character strings, so that split,          *)
(* startswith, replace, int(), float() and string comparison are computed  *)
(* character by character, as the code computes them.  Python's None is    *)
(* the empty tuple None and a present optional value v is <<v>>.  Unit     *)
(* prices and amounts are whole numbers (the input alphabet has no         *)
(* decimal point), for which the float arithmetic of the code is exact.    *)
(* A dict is a sequence of entries in insertion order.                     *)
(***************************************************************************)
EXTENDS Integers, Sequences, FiniteSets, TLC

VARIABLES
    pc,                  \* position of the harness / function being run
    raw_lines,           \* parse_transactions: its argument
    transactions,        \* the parsed (or supplied) transaction list
    region,              \* validate_and_filter: region parameter
    min_amount,          \* validate_and_filter: min_amount parameter
    max_amount,          \* validate_and_filter: max_amount parameter
    idx,                 \* validate_and_filter: transactions consumed by the loop
    valid_transactions,  \* validate_and_filter: accumulator / return value
    invalid_count,       \* validate_and_filter: counter
    filtered_by_region,  \* validate_and_filter: counter
    filtered_by_amount,  \* validate_and_filter: counter
    filter_summary,      \* validate_and_filter: returned summary, None before return
    total_revenue,       \* outcome of calculate_total_revenue(transactions)
    region_stats,        \* outcome of region_wise_sales(transactions)
    daily_stats,         \* outcome of daily_sales_trend(transactions)
    peak,                \* outcome of find_peak_sales_day(transactions)
    top_n,               \* top_selling_products: its argument n
    top_products,        \* outcome of top_selling_products(transactions, n)
    enriched_transactions, \* generate_sales_report: its second argument
    file,                \* the output file: whether it exists and its lines
    handle,              \* the file object of the with block: "none", "open", "closed"
    report,              \* outcome of generate_sales_report
    input_file,          \* main: the file at data/sales_data.txt
    catalog,             \* main: what the product catalog answers to fetch_all_products
    product_mapping,     \* main: keys of create_product_mapping(api_products)
    stdout,              \* main: the messages printed by main and read_sales_data
    raised,              \* main: the exception propagating to the except clause, or None
    main_result,         \* outcome of main()
    failed_stage,        \* history: the pipeline stage that failed in this run, or None
    run,                 \* which run of main this is
    prev_report          \* history: the report text the previous run completed, or None

validateVars == <<region, min_amount, max_amount, idx, valid_transactions,
                  invalid_count, filtered_by_region, filtered_by_amount,
                  filter_summary>>

aggVars == <<total_revenue, region_stats, daily_stats, peak, top_n, top_products>>

reportVars == <<enriched_transactions, file, handle, report>>

mainVars == <<input_file, catalog, product_mapping, stdout, raised, main_result,
              failed_stage, run, prev_report>>

vars == <<pc, raw_lines, transactions, validateVars, aggVars, reportVars, mainVars>>

-----------------------------------------------------------------------------
(* Bounds *)

\* longest list of raw lines handed to parse_transactions
MaxLines == 2

\* longest transaction list handed to the aggregation functions
MaxTx == 2

\* largest n handed to top_selling_products
MaxN == 3

-----------------------------------------------------------------------------
(* Python values *)

None == <<>>

Some(v) == <<v>>

\* the outcome of a call: not made yet, returned a value, or raised
Pending == [outcome |-> "pending", value |-> <<>>]

Returned(v) == [outcome |-> "returned", value |-> v]

Raised(e) == [outcome |-> e, value |-> <<>>]

\* a path at which no file exists
NoFile == [exists |-> FALSE, content |-> <<>>]

\* Python str.startswith(prefix) for a one-character prefix
startswith(s, c) == Len(s) > 0 /\ s[1] = c

\* Python str.replace(c, "")
replace(s, c) == SelectSeq(s, LAMBDA x : x # c)

\* Python str.split("|"): the fields between the separators, empty ones kept
RECURSIVE split(_)
split(s) ==
    IF s = <<>> THEN << <<>> >>
    ELSE LET rest == split(Tail(s))
         IN  IF Head(s) = "|"
             THEN << <<>> >> \o rest
             ELSE << <<Head(s)>> \o Head(rest) >> \o Tail(rest)

DigitChars == {"0", "1", "2", "3", "4", "5", "6", "7", "8", "9"}

DigitVal(c) ==
    CASE c = "0" -> 0 [] c = "1" -> 1 [] c = "2" -> 2 [] c = "3" -> 3
      [] c = "4" -> 4 [] c = "5" -> 5 [] c = "6" -> 6 [] c = "7" -> 7
      [] c = "8" -> 8 [] c = "9" -> 9

IsDigits(s) == Len(s) > 0 /\ \A i \in 1..Len(s) : s[i] \in DigitChars

RECURSIVE DigitsValue(_)
DigitsValue(s) ==
    IF s = <<>> THEN 0
    ELSE DigitsValue(SubSeq(s, 1, Len(s) - 1)) * 10 + DigitVal(s[Len(s)])

\* Python int(s) on the model's alphabet: an optional sign and one or more
\* digits give Some(value); anything else raises ValueError, here None.
int(s) ==
    IF Len(s) > 0 /\ Head(s) = "-"
    THEN IF IsDigits(Tail(s)) THEN Some(0 - DigitsValue(Tail(s))) ELSE None
    ELSE IF IsDigits(s) THEN Some(DigitsValue(s)) ELSE None

\* Python float(s) on the model's alphabet (digits, "-", "," "|" and the letters
\* A B C D P Q S T W X: no ".", no exponent, no spelling of inf or nan): an
\* optional sign and one or more digits give Some(value), a whole number;
\* anything else raises ValueError, here None.
float(s) ==
    IF Len(s) > 0 /\ Head(s) = "-"
    THEN IF IsDigits(Tail(s)) THEN Some(0 - DigitsValue(Tail(s))) ELSE None
    ELSE IF IsDigits(s) THEN Some(DigitsValue(s)) ELSE None

\* the state of main's own variables while main is not being run
MainNotRun ==
    /\ input_file = [status |-> "missing", utf8 |-> TRUE, lines |-> <<>>]
    /\ catalog = Pending
    /\ product_mapping = {}
    /\ stdout = <<>>
    /\ raised = None
    /\ main_result = Pending
    /\ failed_stage = None
    /\ run = 1
    /\ prev_report = None

-----------------------------------------------------------------------------
(* parse_transactions *)

\* ParseLine with the comma stripping of the unit price left out
ParseLineKeepCommas(line) ==
    LET parts == split(line)
    IN  IF Len(parts) # 8 THEN <<>>
        ELSE LET quantity   == int(parts[5])
                 unit_price == float(parts[6])
             IN  IF quantity = None \/ unit_price = None THEN <<>>
                 ELSE << [TransactionID |-> parts[1],
                          Date          |-> parts[2],
                          ProductID     |-> parts[3],
                          ProductName   |-> replace(parts[4], ","),
                          Quantity      |-> quantity[1],
                          UnitPrice     |-> unit_price[1],
                          CustomerID    |-> parts[7],
                          Region        |-> parts[8]] >>

\* One iteration of the loop over raw_lines: the record appended for `line`,
\* as a one-element list, or the empty list when the line is skipped.
ParseLine(line) ==
    LET parts == split(line)
    IN  IF Len(parts) # 8 THEN <<>>
        ELSE LET quantity   == int(parts[5])
                 unit_price == float(replace(parts[6], ","))
             IN  IF quantity = None \/ unit_price = None THEN <<>>
                 ELSE << [TransactionID |-> parts[1],
                          Date          |-> parts[2],
                          ProductID     |-> parts[3],
                          ProductName   |-> replace(parts[4], ","),
                          Quantity      |-> quantity[1],
                          UnitPrice     |-> unit_price[1],
                          CustomerID    |-> parts[7],
                          Region        |-> parts[8]] >>

RECURSIVE parse_transactions(_)
parse_transactions(lines) ==
    IF lines = <<>> THEN <<>>
    ELSE parse_transactions(SubSeq(lines, 1, Len(lines) - 1))
             \o ParseLine(lines[Len(lines)])

-----------------------------------------------------------------------------
(* Inputs: raw lines, as read_sales_data returns them (stripped, non-empty) *)

\* "T1|01|P1|A|2|5|C1|S": valid, amount 10, region S
LineGoodS ==
    <<"T", "1", "|", "0", "1", "|", "P", "1", "|", "A", "|", "2", "|", "5", "|", "C", "1", "|", "S">>

\* "T2|02|P2|B,|1|1,0|C2|W": valid; commas in the name and the price, amount 10, region W
LineCommas ==
    <<"T", "2", "|", "0", "2", "|", "P", "2", "|", "B", ",", "|", "1", "|", "1", ",", "0", "|", "C", "2", "|", "W">>

\* "T3|01|P1|A|3|1|C1|W": valid, amount 3, region W
LineSmall ==
    <<"T", "3", "|", "0", "1", "|", "P", "1", "|", "A", "|", "3", "|", "1", "|", "C", "1", "|", "W">>

\* "T4|02|P2|B|-3|5|C2|S": parses; quantity -3
LineNegQty ==
    <<"T", "4", "|", "0", "2", "|", "P", "2", "|", "B", "|", "-", "3", "|", "5", "|", "C", "2", "|", "S">>

\* "T5|02|P2|B|1|0|C2|S": parses; unit price 0
LineZeroPrice ==
    <<"T", "5", "|", "0", "2", "|", "P", "2", "|", "B", "|", "1", "|", "0", "|", "C", "2", "|", "S">>

\* "X6|01|P1|A|1|5|C1|S": parses; transaction id without T
LineBadTid ==
    <<"X", "6", "|", "0", "1", "|", "P", "1", "|", "A", "|", "1", "|", "5", "|", "C", "1", "|", "S">>

\* "T7|01|Q1|A|1|5|C1|S": parses; product id without P
LineBadPid ==
    <<"T", "7", "|", "0", "1", "|", "Q", "1", "|", "A", "|", "1", "|", "5", "|", "C", "1", "|", "S">>

\* "T8|01|P1|A|1|5|D1|S": parses; customer id without C
LineBadCid ==
    <<"T", "8", "|", "0", "1", "|", "P", "1", "|", "A", "|", "1", "|", "5", "|", "D", "1", "|", "S">>

\* "T9|01|P1|A|1|5|C1|": parses; empty region, amount 5
LineNoRegion ==
    <<"T", "9", "|", "0", "1", "|", "P", "1", "|", "A", "|", "1", "|", "5", "|", "C", "1", "|">>

\* "T3|02|P3|B": 4 fields
LineFour ==
    <<"T", "3", "|", "0", "2", "|", "P", "3", "|", "B">>

\* "T1|01|P1|A|2|5|C1|S|": 9 fields
LineNine ==
    <<"T", "1", "|", "0", "1", "|", "P", "1", "|", "A", "|", "2", "|", "5", "|", "C", "1", "|", "S", "|">>

\* "T1|01|P1|A|1,0|5|C1|S": 8 fields; int('1,0') raises ValueError
LineQtyComma ==
    <<"T", "1", "|", "0", "1", "|", "P", "1", "|", "A", "|", "1", ",", "0", "|", "5", "|", "C", "1", "|", "S">>

\* "T1|01|P1|A|2|A|C1|S": 8 fields; float('A') raises ValueError
LinePriceAlpha ==
    <<"T", "1", "|", "0", "1", "|", "P", "1", "|", "A", "|", "2", "|", "A", "|", "C", "1", "|", "S">>

LineSamples ==
    {LineGoodS, LineCommas, LineSmall, LineNegQty,
     LineZeroPrice, LineBadTid, LineBadPid, LineBadCid,
     LineNoRegion, LineFour, LineNine, LineQtyComma,
     LinePriceAlpha}

SeqsUpTo(S, n) == UNION {[1..k -> S] : k \in 0..n}

\* validate_and_filter's optional parameters: absent, the falsy value, or set
RegionChoices == {None, Some(<<>>), Some(<<"S">>)}

MinAmountChoices == {None, Some(0), Some(10)}

MaxAmountChoices == {None, Some(0), Some(3)}

-----------------------------------------------------------------------------
(* validate_and_filter *)

Amount(tx) == tx.Quantity * tx.UnitPrice

\* IsInvalid with the customer id rule left out
IsInvalidNoCustomerRule(tx) ==
    \/ tx.Quantity <= 0
    \/ tx.UnitPrice <= 0
    \/ ~startswith(tx.TransactionID, "T")
    \/ ~startswith(tx.ProductID, "P")

\* the validation rules: TRUE when the transaction is rejected as invalid
IsInvalid(tx) ==
    \/ tx.Quantity <= 0
    \/ tx.UnitPrice <= 0
    \/ ~startswith(tx.TransactionID, "T")
    \/ ~startswith(tx.ProductID, "P")
    \/ ~startswith(tx.CustomerID, "C")

\* Python truth value of an optional string / optional number parameter
TruthyStr(p) == p # None /\ p[1] # <<>>

TruthyNum(p) == p # None /\ p[1] # 0

\* `if region and tx["Region"] != region`
FailsRegion(tx, r) == TruthyStr(r) /\ tx.Region # r[1]

\* FailsMin with an exclusive bound
FailsMinExclusive(tx, lo) == TruthyNum(lo) /\ Amount(tx) <= lo[1]

\* `if min_amount and amount < min_amount`
FailsMin(tx, lo) == TruthyNum(lo) /\ Amount(tx) < lo[1]

\* `if max_amount and amount > max_amount`
FailsMax(tx, hi) == TruthyNum(hi) /\ Amount(tx) > hi[1]

-----------------------------------------------------------------------------
(* The harness: parse_transactions(raw_lines), then validate_and_filter on   *)
(* its result with any choice of the optional parameters.                   *)

Init ==
    /\ pc = "start"
    /\ raw_lines \in SeqsUpTo(LineSamples, MaxLines)
    /\ transactions = None
    /\ region = None
    /\ min_amount = None
    /\ max_amount = None
    /\ idx = 0
    /\ valid_transactions = <<>>
    /\ invalid_count = 0
    /\ filtered_by_region = 0
    /\ filtered_by_amount = 0
    /\ filter_summary = None
    /\ total_revenue = Pending
    /\ region_stats = Pending
    /\ daily_stats = Pending
    /\ peak = Pending
    /\ top_n = 0
    /\ top_products = Pending
    /\ enriched_transactions = <<>>
    /\ file = NoFile
    /\ handle = "none"
    /\ report = Pending
    /\ MainNotRun

\* transactions = parse_transactions(raw_lines)
ParseTransactions ==
    /\ pc = "start"
    /\ transactions' = parse_transactions(raw_lines)
    /\ pc' = "parsed"
    /\ UNCHANGED <<raw_lines, validateVars, aggVars, reportVars,
                   mainVars>>

\* validate_and_filter is entered: parameters bound, accumulators initialised
ValidateBegin ==
    /\ pc = "parsed"
    /\ \E r \in RegionChoices, lo \in MinAmountChoices, hi \in MaxAmountChoices :
          /\ region' = r
          /\ min_amount' = lo
          /\ max_amount' = hi
    /\ valid_transactions' = <<>>
    /\ invalid_count' = 0
    /\ filtered_by_region' = 0
    /\ filtered_by_amount' = 0
    /\ idx' = 0
    /\ pc' = "validate_loop"
    /\ UNCHANGED <<raw_lines, transactions, filter_summary, aggVars, reportVars,
                   mainVars>>

\* ValidateIter in which a row failing the region filter and an amount bound
\* is counted in both filter counters
ValidateIterDoubleCount ==
    /\ pc = "validate_loop"
    /\ idx < Len(transactions)
    /\ LET tx == transactions[idx + 1]
       IN  IF IsInvalid(tx)
           THEN /\ invalid_count' = invalid_count + 1
                /\ UNCHANGED <<filtered_by_region, filtered_by_amount,
                               valid_transactions>>
           ELSE IF FailsRegion(tx, region)
           THEN /\ filtered_by_region' = filtered_by_region + 1
                /\ filtered_by_amount' =
                     IF FailsMin(tx, min_amount) \/ FailsMax(tx, max_amount)
                     THEN filtered_by_amount + 1 ELSE filtered_by_amount
                /\ UNCHANGED <<invalid_count, valid_transactions>>
           ELSE IF FailsMin(tx, min_amount) \/ FailsMax(tx, max_amount)
           THEN /\ filtered_by_amount' = filtered_by_amount + 1
                /\ UNCHANGED <<invalid_count, filtered_by_region,
                               valid_transactions>>
           ELSE /\ valid_transactions' = Append(valid_transactions, tx)
                /\ UNCHANGED <<invalid_count, filtered_by_region,
                               filtered_by_amount>>
    /\ idx' = idx + 1
    /\ UNCHANGED <<pc, raw_lines, transactions, region, min_amount, max_amount,
                   filter_summary, aggVars, reportVars,
                   mainVars>>

\* one iteration of `for tx in transactions`
ValidateIter ==
    /\ pc = "validate_loop"
    /\ idx < Len(transactions)
    /\ LET tx == transactions[idx + 1]
       IN  IF IsInvalid(tx)
           THEN /\ invalid_count' = invalid_count + 1
                /\ UNCHANGED <<filtered_by_region, filtered_by_amount,
                               valid_transactions>>
           ELSE IF FailsRegion(tx, region)
           THEN /\ filtered_by_region' = filtered_by_region + 1
                /\ UNCHANGED <<invalid_count, filtered_by_amount,
                               valid_transactions>>
           ELSE IF FailsMin(tx, min_amount) \/ FailsMax(tx, max_amount)
           THEN /\ filtered_by_amount' = filtered_by_amount + 1
                /\ UNCHANGED <<invalid_count, filtered_by_region,
                               valid_transactions>>
           ELSE /\ valid_transactions' = Append(valid_transactions, tx)
                /\ UNCHANGED <<invalid_count, filtered_by_region,
                               filtered_by_amount>>
    /\ idx' = idx + 1
    /\ UNCHANGED <<pc, raw_lines, transactions, region, min_amount, max_amount,
                   filter_summary, aggVars, reportVars,
                   mainVars>>

\* the loop is exhausted: the summary is built and the function returns
ValidateReturn ==
    /\ pc = "validate_loop"
    /\ idx = Len(transactions)
    /\ filter_summary' = Some([total_input        |-> Len(transactions),
                               invalid            |-> invalid_count,
                               filtered_by_region |-> filtered_by_region,
                               filtered_by_amount |-> filtered_by_amount,
                               final_count        |-> Len(valid_transactions)])
    /\ pc' = "validated"
    /\ UNCHANGED <<raw_lines, transactions, region, min_amount, max_amount, idx,
                   valid_transactions, invalid_count, filtered_by_region,
                   filtered_by_amount, aggVars, reportVars,
                   mainVars>>

Next ==
    \/ ParseTransactions
    \/ ValidateBegin
    \/ ValidateIter
    \/ ValidateReturn

Spec == Init /\ [][Next]_vars

-----------------------------------------------------------------------------
(* Claims about parse_transactions and validate_and_filter (Spec) *)

Range(q) == {q[i] : i \in 1..Len(q)}

\* the five business rules of the data model, stated on the record
PassesRules(tx) ==
    /\ tx.Quantity > 0
    /\ tx.UnitPrice > 0
    /\ Len(tx.TransactionID) > 0 /\ tx.TransactionID[1] = "T"
    /\ Len(tx.ProductID) > 0 /\ tx.ProductID[1] = "P"
    /\ Len(tx.CustomerID) > 0 /\ tx.CustomerID[1] = "C"

RuleBreakers == {i \in 1..Len(transactions) : ~PassesRules(transactions[i])}

C2_SurvivorsHaveRegion ==
    pc = "validated" =>
        /\ \A i \in 1..Len(valid_transactions) : valid_transactions[i].Region # <<>>
        /\ invalid_count >=
             Cardinality({i \in 1..Len(transactions) : transactions[i].Region = <<>>})

\* the filter parameters that are set (present and truthy)
RegionSet == region # None /\ region # Some(<<>>)

MinSet == min_amount # None /\ min_amount # Some(0)

MaxSet == max_amount # None /\ max_amount # Some(0)

RegionOk(tx) == RegionSet => tx.Region = region[1]

AmountOk(tx) ==
    /\ MinSet => min_amount[1] <= tx.Quantity * tx.UnitPrice
    /\ MaxSet => tx.Quantity * tx.UnitPrice <= max_amount[1]

ShouldKeep(tx) == PassesRules(tx) /\ RegionOk(tx) /\ AmountOk(tx)

Numeral(s) ==
    LET body == IF Len(s) > 0 /\ s[1] = "-" THEN Tail(s) ELSE s
    IN  Len(body) > 0 /\ \A i \in 1..Len(body) : body[i] \in DigitChars

Field(line, k) == split(line)[k]

LineParses(line) ==
    /\ Cardinality({i \in 1..Len(line) : line[i] = "|"}) = 7
    /\ Numeral(Field(line, 5))
    /\ Numeral(SelectSeq(Field(line, 6), LAMBDA c : c # ","))

KeptLines == SelectSeq(raw_lines, LineParses)

\* C4: parse_transactions returns exactly one record per line with exactly 8
\* fields, an integer quantity and a numeric comma-stripped unit price, and
\* none for any other line, in the order of the lines, duplicates included.
C4_OneRecordPerWellFormedLine ==
    pc = "parsed" =>
        /\ Len(transactions) = Len(KeptLines)
        /\ \A i \in 1..Len(KeptLines) :
             /\ transactions[i].TransactionID = Field(KeptLines[i], 1)
             /\ transactions[i].Date = Field(KeptLines[i], 2)
             /\ transactions[i].ProductID = Field(KeptLines[i], 3)
             /\ transactions[i].ProductName =
                  SelectSeq(Field(KeptLines[i], 4), LAMBDA c : c # ",")
             /\ float(SelectSeq(Field(KeptLines[i], 6), LAMBDA c : c # ","))
                  = Some(transactions[i].UnitPrice)
             /\ transactions[i].CustomerID = Field(KeptLines[i], 7)
             /\ transactions[i].Region = Field(KeptLines[i], 8)
             /\ int(Field(KeptLines[i], 5)) = Some(transactions[i].Quantity)

\* a 4-field line is dropped and the line after it, with commas in its name and
\* price, is kept
C4_Witness ==
    /\ pc = "parsed"
    /\ raw_lines = <<LineFour, LineCommas>>
    /\ Len(transactions) = 1
    /\ transactions[1].UnitPrice = 10

\* the same line twice yields the same record twice
C4_WitnessDuplicates ==
    /\ pc = "parsed"
    /\ raw_lines = <<LineGoodS, LineGoodS>>
    /\ Len(transactions) = 2

\* the rows the loop of validate_and_filter has consumed
Processed == 1..idx

\* C13: after every iteration of the validate_and_filter loop, and in the
\* returned summary, each row processed so far is counted in exactly one of
\* invalid, filtered_by_region, filtered_by_amount or kept:
\* total_input = invalid + filtered_by_region + filtered_by_amount +
\* final_count with final_count = len(valid_transactions); a row failing both
\* the region filter and an amount bound is counted in filtered_by_region only.
C13_CountersPartitionProcessedRows ==
    /\ pc \in {"validate_loop", "validated"} =>
         /\ idx = invalid_count + filtered_by_region + filtered_by_amount
                    + Len(valid_transactions)
         /\ invalid_count =
              Cardinality({i \in Processed : ~PassesRules(transactions[i])})
         /\ filtered_by_region =
              Cardinality({i \in Processed :
                  PassesRules(transactions[i]) /\ ~RegionOk(transactions[i])})
         /\ filtered_by_amount =
              Cardinality({i \in Processed :
                  /\ PassesRules(transactions[i])
                  /\ RegionOk(transactions[i])
                  /\ ~AmountOk(transactions[i])})
    /\ pc = "validated" =>
         LET summary == filter_summary[1]
         IN  /\ summary.total_input = Len(transactions)
             /\ summary.final_count = Len(valid_transactions)
             /\ summary.total_input =
                  summary.invalid + summary.filtered_by_region
                      + summary.filtered_by_amount + summary.final_count

\* region S and min_amount 10 are set and a valid row of region W and amount 3
\* has been processed: it is counted in filtered_by_region alone
C13_Witness ==
    /\ pc = "validate_loop"
    /\ region = Some(<<"S">>)
    /\ min_amount = Some(10)
    /\ idx = 1
    /\ PassesRules(transactions[1])
    /\ transactions[1].Region = <<"W">>
    /\ transactions[1].Quantity * transactions[1].UnitPrice = 3
    /\ filtered_by_region = 1
    /\ filtered_by_amount = 0

-----------------------------------------------------------------------------
(* Sorting and string order, as the Python built-ins compute them *)

\* ord(c) for the characters of the model's alphabet
ord(c) ==
    CASE c = "," -> 44 [] c = "-" -> 45 [] c \in DigitChars -> 48 + DigitVal(c)
      [] c = "A" -> 65 [] c = "B" -> 66 [] c = "C" -> 67 [] c = "D" -> 68
      [] c = "P" -> 80 [] c = "Q" -> 81 [] c = "S" -> 83 [] c = "T" -> 84
      [] c = "W" -> 87 [] c = "X" -> 88 [] c = "|" -> 124

\* Python a < b on strings: lexicographic by code point, a proper prefix first
RECURSIVE StrLess(_, _)
StrLess(a, b) ==
    IF b = <<>> THEN FALSE
    ELSE IF a = <<>> THEN TRUE
    ELSE IF Head(a) # Head(b) THEN ord(Head(a)) < ord(Head(b))
    ELSE StrLess(Tail(a), Tail(b))

\* InsertDesc that puts an element before the elements of equal key
RECURSIVE InsertDescUnstable(_, _, _)
InsertDescUnstable(p, i, keys) ==
    IF p = <<>> THEN <<i>>
    ELSE IF keys[Head(p)] > keys[i]
         THEN <<Head(p)>> \o InsertDescUnstable(Tail(p), i, keys)
         ELSE <<i>> \o p

\* position i is inserted into the index list p, which is in non-increasing
\* key order, behind every position whose key is >= its own (stable)
RECURSIVE InsertDesc(_, _, _)
InsertDesc(p, i, keys) ==
    IF p = <<>> THEN <<i>>
    ELSE IF keys[Head(p)] >= keys[i]
         THEN <<Head(p)>> \o InsertDesc(Tail(p), i, keys)
         ELSE <<i>> \o p

RECURSIVE OrderDesc(_, _)
OrderDesc(keys, n) ==
    IF n = 0 THEN <<>> ELSE InsertDesc(OrderDesc(keys, n - 1), n, keys)

\* sorted(q, key=..., reverse=True) / q.sort(key=..., reverse=True), keys[i]
\* being the key of q[i]: non-increasing keys, equal keys in their old order
SortedDesc(q, keys) ==
    LET p == OrderDesc(keys, Len(q)) IN [k \in 1..Len(q) |-> q[p[k]]]

RECURSIVE InsertAscStr(_, _, _)
InsertAscStr(p, i, keys) ==
    IF p = <<>> THEN <<i>>
    ELSE IF ~StrLess(keys[i], keys[Head(p)])
         THEN <<Head(p)>> \o InsertAscStr(Tail(p), i, keys)
         ELSE <<i>> \o p

RECURSIVE OrderAscStr(_, _)
OrderAscStr(keys, n) ==
    IF n = 0 THEN <<>> ELSE InsertAscStr(OrderAscStr(keys, n - 1), n, keys)

\* sorted(q) on entries with string keys: ascending string order
SortedAscStr(q, keys) ==
    LET p == OrderAscStr(keys, Len(q)) IN [k \in 1..Len(q) |-> q[p[k]]]

\* position of key k in the key list of a dict, 0 when absent
KeyIndex(keys, k) ==
    IF \E i \in 1..Len(keys) : keys[i] = k
    THEN CHOOSE i \in 1..Len(keys) : keys[i] = k
    ELSE 0

Front(q) == SubSeq(q, 1, Len(q) - 1)

Last(q) == q[Len(q)]

\* round(a / b, 0) for a >= 0, b > 0: to the nearest, an exact half to even
RoundDiv(a, b) ==
    LET q == a \div b
        r == a % b
    IN  IF 2 * r < b THEN q
        ELSE IF 2 * r > b THEN q + 1
        ELSE IF q % 2 = 0 THEN q ELSE q + 1

-----------------------------------------------------------------------------
(* calculate_total_revenue *)

RECURSIVE calculate_total_revenue(_)
calculate_total_revenue(txs) ==
    IF txs = <<>> THEN 0
    ELSE calculate_total_revenue(Front(txs)) + Amount(Last(txs))

-----------------------------------------------------------------------------
(* region_wise_sales *)

\* RegionAccumulate that leaves the first sale of a region out of its total
RECURSIVE RegionAccumulateDropFirst(_)
RegionAccumulateDropFirst(txs) ==
    IF txs = <<>> THEN <<>>
    ELSE LET d  == RegionAccumulateDropFirst(Front(txs))
             tx == Last(txs)
             i  == KeyIndex([k \in 1..Len(d) |-> d[k].region], tx.Region)
         IN  IF i = 0
             THEN Append(d, [region |-> tx.Region, total_sales |-> 0,
                             transaction_count |-> 1])
             ELSE [d EXCEPT ![i].total_sales = @ + Amount(tx),
                            ![i].transaction_count = @ + 1]

\* first pass: region_stats after the loop over txs, in insertion order
RECURSIVE RegionAccumulate(_)
RegionAccumulate(txs) ==
    IF txs = <<>> THEN <<>>
    ELSE LET d  == RegionAccumulate(Front(txs))
             tx == Last(txs)
             i  == KeyIndex([k \in 1..Len(d) |-> d[k].region], tx.Region)
             d1 == IF i = 0
                   THEN Append(d, [region |-> tx.Region, total_sales |-> 0,
                                   transaction_count |-> 0])
                   ELSE d
             j  == IF i = 0 THEN Len(d1) ELSE i
         IN  [d1 EXCEPT ![j].total_sales = @ + Amount(tx),
                        ![j].transaction_count = @ + 1]

\* the outcome of region_wise_sales(txs).  percentage is in hundredths of a
\* percent: round(total_sales / total_sales_all * 100, 2) * 100.  The second
\* pass divides by total_sales_all for each region: with a region present and
\* total_sales_all = 0 the division raises ZeroDivisionError.
region_wise_sales(txs) ==
    LET stats           == RegionAccumulate(txs)
        total_sales_all == calculate_total_revenue(txs)
    IN  IF Len(stats) > 0 /\ total_sales_all = 0
        THEN Raised("ZeroDivisionError")
        ELSE LET withPct ==
                     [k \in 1..Len(stats) |->
                         [region            |-> stats[k].region,
                          total_sales       |-> stats[k].total_sales,
                          transaction_count |-> stats[k].transaction_count,
                          percentage        |->
                              RoundDiv(stats[k].total_sales * 10000,
                                       total_sales_all)]]
             IN  Returned(SortedDesc(withPct,
                     [k \in 1..Len(withPct) |-> withPct[k].total_sales]))

-----------------------------------------------------------------------------
(* top_selling_products *)

\* product_summary after the aggregation loop, in insertion order
RECURSIVE ProductAccumulate(_)
ProductAccumulate(txs) ==
    IF txs = <<>> THEN <<>>
    ELSE LET d  == ProductAccumulate(Front(txs))
             tx == Last(txs)
             i  == KeyIndex([k \in 1..Len(d) |-> d[k].product], tx.ProductName)
             d1 == IF i = 0
                   THEN Append(d, [product |-> tx.ProductName,
                                   total_quantity |-> 0, total_revenue |-> 0])
                   ELSE d
             j  == IF i = 0 THEN Len(d1) ELSE i
         IN  [d1 EXCEPT ![j].total_quantity = @ + tx.Quantity,
                        ![j].total_revenue = @ + Amount(tx)]

\* Python q[:n]: the first n elements, or all but the last -n when n < 0
SliceTo(q, n) ==
    IF n >= 0
    THEN SubSeq(q, 1, IF n < Len(q) THEN n ELSE Len(q))
    ELSE SubSeq(q, 1, Len(q) + n)

\* top_selling_products with an unstable sort
top_selling_products_unstable(txs, n) ==
    LET product_list == ProductAccumulate(txs)
        p == LET keys == [k \in 1..Len(product_list) |->
                             product_list[k].total_quantity]
                 RECURSIVE ord_(_)
                 ord_(m) == IF m = 0 THEN <<>>
                            ELSE InsertDescUnstable(ord_(m - 1), m, keys)
             IN  ord_(Len(product_list))
    IN  SliceTo([k \in 1..Len(product_list) |-> product_list[p[k]]], n)

\* the list of (product, total_quantity, round(total_revenue, 2)) tuples sorted
\* by total_quantity descending, cut to n; revenues are whole numbers, which
\* round(., 2) leaves as they are
top_selling_products(txs, n) ==
    LET product_list == ProductAccumulate(txs)
    IN  SliceTo(SortedDesc(product_list,
                    [k \in 1..Len(product_list) |->
                        product_list[k].total_quantity]), n)

-----------------------------------------------------------------------------
(* daily_sales_trend and find_peak_sales_day *)

\* daily_stats / daily_revenue after the aggregation loop, in insertion order
RECURSIVE DailyAccumulate(_)
DailyAccumulate(txs) ==
    IF txs = <<>> THEN <<>>
    ELSE LET d  == DailyAccumulate(Front(txs))
             tx == Last(txs)
             i  == KeyIndex([k \in 1..Len(d) |-> d[k].date], tx.Date)
             d1 == IF i = 0
                   THEN Append(d, [date |-> tx.Date, revenue |-> 0,
                                   transaction_count |-> 0, customers |-> {}])
                   ELSE d
             j  == IF i = 0 THEN Len(d1) ELSE i
         IN  [d1 EXCEPT ![j].revenue = @ + Amount(tx),
                        ![j].transaction_count = @ + 1,
                        ![j].customers = @ \cup {tx.CustomerID}]

\* the dict sorted by date: customers replaced by their count
daily_sales_trend(txs) ==
    LET d == DailyAccumulate(txs)
        counted == [k \in 1..Len(d) |->
                       [date              |-> d[k].date,
                        revenue           |-> d[k].revenue,
                        transaction_count |-> d[k].transaction_count,
                        unique_customers  |-> Cardinality(d[k].customers)]]
    IN  SortedAscStr(counted, [k \in 1..Len(counted) |-> counted[k].date])

\* PeakScan that lets a later date of equal revenue replace the peak
RECURSIVE PeakScanLastWins(_)
PeakScanLastWins(d) ==
    IF d = <<>> THEN [peak_date |-> None, peak_revenue |-> 0, peak_count |-> 0]
    ELSE LET best  == PeakScanLastWins(Front(d))
             stats == Last(d)
         IN  IF stats.revenue >= best.peak_revenue
             THEN [peak_date    |-> Some(stats.date),
                   peak_revenue |-> stats.revenue,
                   peak_count   |-> stats.transaction_count]
             ELSE best

\* the loop over daily_revenue.items(), in insertion order, with strict >
RECURSIVE PeakScan(_)
PeakScan(d) ==
    IF d = <<>> THEN [peak_date |-> None, peak_revenue |-> 0, peak_count |-> 0]
    ELSE LET best  == PeakScan(Front(d))
             stats == Last(d)
         IN  IF stats.revenue > best.peak_revenue
             THEN [peak_date    |-> Some(stats.date),
                   peak_revenue |-> stats.revenue,
                   peak_count   |-> stats.transaction_count]
             ELSE best

find_peak_sales_day(txs) == PeakScan(DailyAccumulate(txs))

-----------------------------------------------------------------------------
(* The aggregation functions applied to one transaction list               *)

Str(c) == <<c>>

\* transaction records as parse_transactions builds them: two dates, two
\* regions, two products, quantities 0..2 and unit prices 1..2
TxPool ==
    {[TransactionID |-> <<"T", "1">>,
      Date          |-> d,
      ProductID     |-> IF n = Str("A") THEN <<"P", "1">> ELSE <<"P", "2">>,
      ProductName   |-> n,
      Quantity      |-> q,
      UnitPrice     |-> u,
      CustomerID    |-> IF r = Str("S") THEN <<"C", "1">> ELSE <<"C", "2">>,
      Region        |-> r] :
        d \in {<<"0", "1">>, <<"0", "2">>}, n \in {Str("A"), Str("B")},
        q \in 0..2, u \in 1..2, r \in {Str("S"), Str("W")}}

InitAgg ==
    /\ pc = "agg_start"
    /\ raw_lines = <<>>
    /\ transactions \in SeqsUpTo(TxPool, MaxTx)
    /\ region = None
    /\ min_amount = None
    /\ max_amount = None
    /\ idx = 0
    /\ valid_transactions = <<>>
    /\ invalid_count = 0
    /\ filtered_by_region = 0
    /\ filtered_by_amount = 0
    /\ filter_summary = None
    /\ total_revenue = Pending
    /\ region_stats = Pending
    /\ daily_stats = Pending
    /\ peak = Pending
    /\ top_n = 0
    /\ top_products = Pending
    /\ enriched_transactions = <<>>
    /\ file = NoFile
    /\ handle = "none"
    /\ report = Pending
    /\ MainNotRun

CalculateTotalRevenue ==
    /\ pc = "agg_start"
    /\ total_revenue' = Returned(calculate_total_revenue(transactions))
    /\ pc' = "agg_total"
    /\ UNCHANGED <<raw_lines, transactions, validateVars, reportVars, mainVars, region_stats,
                   daily_stats, peak, top_n, top_products>>

RegionWiseSales ==
    /\ pc = "agg_total"
    /\ region_stats' = region_wise_sales(transactions)
    /\ pc' = "agg_region"
    /\ UNCHANGED <<raw_lines, transactions, validateVars, reportVars, mainVars, total_revenue,
                   daily_stats, peak, top_n, top_products>>

DailySalesTrend ==
    /\ pc = "agg_region"
    /\ daily_stats' = Returned(daily_sales_trend(transactions))
    /\ pc' = "agg_daily"
    /\ UNCHANGED <<raw_lines, transactions, validateVars, reportVars, mainVars, total_revenue,
                   region_stats, peak, top_n, top_products>>

FindPeakSalesDay ==
    /\ pc = "agg_daily"
    /\ peak' = Returned(find_peak_sales_day(transactions))
    /\ pc' = "agg_peak"
    /\ UNCHANGED <<raw_lines, transactions, validateVars, reportVars, mainVars, total_revenue,
                   region_stats, daily_stats, top_n, top_products>>

TopSellingProducts ==
    /\ pc = "agg_peak"
    /\ \E n \in -1..MaxN :
          /\ top_n' = n
          /\ top_products' = Returned(top_selling_products(transactions, n))
    /\ pc' = "agg_top"
    /\ UNCHANGED <<raw_lines, transactions, validateVars, reportVars, mainVars, total_revenue,
                   region_stats, daily_stats, peak>>

NextAgg ==
    \/ CalculateTotalRevenue
    \/ RegionWiseSales
    \/ DailySalesTrend
    \/ FindPeakSalesDay
    \/ TopSellingProducts

SpecAgg == InitAgg /\ [][NextAgg]_vars

-----------------------------------------------------------------------------
(* Claims about the aggregation functions (SpecAgg) *)

RECURSIVE SumSeq(_)
SumSeq(q) == IF q = <<>> THEN 0 ELSE Head(q) + SumSeq(Tail(q))

AllValid == \A i \in 1..Len(transactions) : PassesRules(transactions[i])

GrandTotal ==
    SumSeq([i \in 1..Len(transactions) |->
               transactions[i].Quantity * transactions[i].UnitPrice])

\* C5: when the grand total of the transaction list is 0, region_wise_sales
\* completes without a division by zero and every region's percentage is 0.
C5_ZeroTotalGivesZeroPercentages ==
    (region_stats.outcome # "pending" /\ GrandTotal = 0) =>
        /\ region_stats.outcome = "returned"
        /\ \A k \in 1..Len(region_stats.value) :
             region_stats.value[k].percentage = 0

\* C6: for a non-empty valid transaction list the regions' total_sales add up
\* to calculate_total_revenue, their transaction_count to the number of
\* transactions, and every transaction's region is exactly one key.
C6_RegionTotalsAddUp ==
    (region_stats.outcome # "pending" /\ transactions # <<>> /\ AllValid) =>
        /\ region_stats.outcome = "returned"
        /\ LET rs == region_stats.value
           IN  /\ SumSeq([k \in 1..Len(rs) |-> rs[k].total_sales])
                    = total_revenue.value
               /\ SumSeq([k \in 1..Len(rs) |-> rs[k].transaction_count])
                    = Len(transactions)
               /\ \A i \in 1..Len(transactions) :
                    Cardinality({k \in 1..Len(rs) :
                        rs[k].region = transactions[i].Region}) = 1

\* two valid transactions in two regions
C6_Witness ==
    /\ region_stats.outcome = "returned"
    /\ AllValid
    /\ Len(transactions) = 2
    /\ Len(region_stats.value) = 2
    /\ region_stats.value[1].total_sales > region_stats.value[2].total_sales

\* the entries of daily_sales_trend with the greatest revenue
MaxDailyRevenue ==
    CHOOSE m \in {daily_stats.value[k].revenue : k \in 1..Len(daily_stats.value)} :
        \A k \in 1..Len(daily_stats.value) : daily_stats.value[k].revenue <= m

TiedDays ==
    {k \in 1..Len(daily_stats.value) : daily_stats.value[k].revenue = MaxDailyRevenue}

TiedDates == {daily_stats.value[k].date : k \in TiedDays}

PeakIsEntry(k) ==
    /\ peak.value.peak_date = Some(daily_stats.value[k].date)
    /\ peak.value.peak_revenue = daily_stats.value[k].revenue
    /\ peak.value.peak_count = daily_stats.value[k].transaction_count

\* C7 as stated: find_peak_sales_day returns a date of maximum
\* daily_sales_trend revenue with its revenue and count, and among tied dates
\* the one returned is the earliest in the date order of daily_sales_trend.
C7_PeakIsEarliestTiedDate ==
    (peak.outcome = "returned" /\ transactions # <<>> /\ AllValid) =>
        PeakIsEntry(CHOOSE k \in TiedDays : \A l \in TiedDays : k <= l)

\* C7 amended: find_peak_sales_day returns a date of maximum daily_sales_trend
\* revenue with its revenue and count, and among tied dates the one returned
\* is the one that appears first in the input transaction list.
C7_PeakIsFirstTiedDateOfInput ==
    (peak.outcome = "returned" /\ transactions # <<>> /\ AllValid) =>
        LET first == CHOOSE i \in 1..Len(transactions) :
                         /\ transactions[i].Date \in TiedDates
                         /\ \A j \in 1..(i - 1) :
                              transactions[j].Date \notin TiedDates
        IN  \E k \in TiedDays :
                /\ daily_stats.value[k].date = transactions[first].Date
                /\ PeakIsEntry(k)

\* two dates tie and the later date comes first in the input
C7_Witness ==
    /\ peak.outcome = "returned"
    /\ AllValid
    /\ Len(transactions) = 2
    /\ Cardinality(TiedDays) = 2
    /\ StrLess(transactions[2].Date, transactions[1].Date)
    /\ peak.value.peak_date = Some(transactions[1].Date)

ProductNames == {transactions[i].ProductName : i \in 1..Len(transactions)}

QuantityOf(name) ==
    SumSeq([i \in 1..Len(transactions) |->
               IF transactions[i].ProductName = name
               THEN transactions[i].Quantity ELSE 0])

RevenueOf(name) ==
    SumSeq([i \in 1..Len(transactions) |->
               IF transactions[i].ProductName = name
               THEN transactions[i].Quantity * transactions[i].UnitPrice ELSE 0])

FirstIndexOf(name) ==
    CHOOSE i \in 1..Len(transactions) :
        /\ transactions[i].ProductName = name
        /\ \A j \in 1..(i - 1) : transactions[j].ProductName # name

\* C8: for n >= 0, top_selling_products returns min(n, distinct products)
\* entries with each product's summed quantity and revenue, in non-increasing
\* quantity order, equal quantities in order of first appearance, and no
\* product left out has a larger quantity than one returned.
C8_TopProducts ==
    (top_products.outcome = "returned" /\ top_n >= 0) =>
        LET out == top_products.value
            distinct == Cardinality(ProductNames)
        IN  /\ Len(out) = IF top_n < distinct THEN top_n ELSE distinct
            /\ \A k \in 1..Len(out) :
                 /\ out[k].product \in ProductNames
                 /\ out[k].total_quantity = QuantityOf(out[k].product)
                 /\ out[k].total_revenue = RevenueOf(out[k].product)
            /\ \A k, l \in 1..Len(out) :
                 k < l =>
                     /\ out[k].product # out[l].product
                     /\ out[k].total_quantity >= out[l].total_quantity
                     /\ out[k].total_quantity = out[l].total_quantity =>
                          FirstIndexOf(out[k].product) < FirstIndexOf(out[l].product)
            /\ \A name \in ProductNames :
                 (\A k \in 1..Len(out) : out[k].product # name) =>
                     \A k \in 1..Len(out) : QuantityOf(name) <= out[k].total_quantity

\* two products of equal total quantity, n = 1: the first to appear is returned
C8_Witness ==
    /\ top_products.outcome = "returned"
    /\ top_n = 1
    /\ Cardinality(ProductNames) = 2
    /\ \A name \in ProductNames : QuantityOf(name) = 2
    /\ Len(top_products.value) = 1
    /\ top_products.value[1].product = transactions[1].ProductName

-----------------------------------------------------------------------------
(* generate_sales_report: the second definition (lines 530-645), which      *)
(* replaces the first (lines 416-523) when the module is imported.          *)
(* A line of the file is one f.write call: its label, the strings it        *)
(* interpolates and the numbers it formats (money and percentages in        *)
(* hundredths, as ",.2f" and ".2f" print them).                             *)

\* top_products / top_customers keep the first 5 entries
TopCount == 5

Line(tag, text, nums) == [tag |-> tag, text |-> text, nums |-> nums]

\* f"{num / den:,.2f}", in hundredths (num >= 0, den > 0)
Fmt2(num, den) == RoundDiv(num * 100, den)

\* min(dates) / max(dates) on strings
MinStr(q) == CHOOSE i \in 1..Len(q) : \A j \in 1..Len(q) : ~StrLess(q[j], q[i])

MaxStr(q) == CHOOSE i \in 1..Len(q) : \A j \in 1..Len(q) : ~StrLess(q[i], q[j])

\* region_stats (a defaultdict) after its loop, in insertion order
RECURSIVE ReportRegionStats(_)
ReportRegionStats(txs) ==
    IF txs = <<>> THEN <<>>
    ELSE LET d  == ReportRegionStats(Front(txs))
             tx == Last(txs)
             i  == KeyIndex([k \in 1..Len(d) |-> d[k].region], tx.Region)
             d1 == IF i = 0
                   THEN Append(d, [region |-> tx.Region, revenue |-> 0, count |-> 0])
                   ELSE d
             j  == IF i = 0 THEN Len(d1) ELSE i
         IN  [d1 EXCEPT ![j].revenue = @ + Amount(tx), ![j].count = @ + 1]

\* customer_stats (a defaultdict) after its loop, in insertion order
RECURSIVE ReportCustomerStats(_)
ReportCustomerStats(txs) ==
    IF txs = <<>> THEN <<>>
    ELSE LET d  == ReportCustomerStats(Front(txs))
             tx == Last(txs)
             i  == KeyIndex([k \in 1..Len(d) |-> d[k].cid], tx.CustomerID)
             d1 == IF i = 0
                   THEN Append(d, [cid |-> tx.CustomerID, spent |-> 0, orders |-> 0])
                   ELSE d
             j  == IF i = 0 THEN Len(d1) ELSE i
         IN  [d1 EXCEPT ![j].spent = @ + Amount(tx), ![j].orders = @ + 1]

\* the header block; now is the value of datetime.now()
HeaderLines(txs, now) ==
    << Line("SALES ANALYTICS REPORT", <<>>, <<>>),
       Line("=" , <<>>, <<>>),
       Line("Generated on", <<now>>, <<>>),
       Line("Records Processed", <<>>, <<Len(txs)>>) >>

SummaryLines(txs) ==
    LET total_transactions == Len(txs)
        total_revenue_     == calculate_total_revenue(txs)
        avg_order_value    == IF total_transactions # 0
                              THEN Fmt2(total_revenue_, total_transactions)
                              ELSE 0
        dates              == [i \in 1..Len(txs) |-> txs[i].Date]
        date_range         == IF dates # <<>>
                              THEN <<dates[MinStr(dates)], dates[MaxStr(dates)]>>
                              ELSE << <<"N", "/", "A">> >>
    IN  << Line("OVERALL SUMMARY", <<>>, <<>>),
           Line("-", <<>>, <<>>),
           Line("Total Revenue", <<>>, <<Fmt2(total_revenue_, 1)>>),
           Line("Total Transactions", <<>>, <<total_transactions>>),
           Line("Average Order Value", <<>>, <<avg_order_value>>),
           Line("Date Range", date_range, <<>>) >>

\* `for region, data in region_stats.items()`: the dict's insertion order
RegionLines(txs) ==
    LET stats         == ReportRegionStats(txs)
        total_revenue_ == calculate_total_revenue(txs)
    IN  << Line("REGION-WISE PERFORMANCE", <<>>, <<>>),
           Line("-", <<>>, <<>>) >>
        \o [k \in 1..Len(stats) |->
               Line("region", <<stats[k].region>>,
                    << Fmt2(stats[k].revenue, 1),
                       stats[k].count,
                       IF total_revenue_ # 0
                       THEN RoundDiv(stats[k].revenue * 10000, total_revenue_)
                       ELSE 0 >>)]
        \o << Line("blank", <<>>, <<>>) >>

\* product_stats is built by the same loop as product_summary (lines 551-557)
TopProductLines(txs) ==
    LET product_stats == ProductAccumulate(txs)
        top == SliceTo(SortedDesc(product_stats,
                   [k \in 1..Len(product_stats) |-> product_stats[k].total_revenue]),
                   TopCount)
    IN  << Line("TOP PRODUCTS", <<>>, <<>>), Line("-", <<>>, <<>>) >>
        \o [k \in 1..Len(top) |->
               Line("product", <<top[k].product>>,
                    <<k, top[k].total_quantity, Fmt2(top[k].total_revenue, 1)>>)]
        \o << Line("blank", <<>>, <<>>) >>

TopCustomerLines(txs) ==
    LET customer_stats == ReportCustomerStats(txs)
        top == SliceTo(SortedDesc(customer_stats,
                   [k \in 1..Len(customer_stats) |-> customer_stats[k].spent]),
                   TopCount)
    IN  << Line("TOP CUSTOMERS", <<>>, <<>>), Line("-", <<>>, <<>>) >>
        \o [k \in 1..Len(top) |->
               Line("customer", <<top[k].cid>>,
                    <<k, Fmt2(top[k].spent, 1), top[k].orders>>)]
        \o << Line("blank", <<>>, <<>>) >>

\* daily_stats is built by the same loop as in daily_sales_trend (lines 580-586)
DailyLines(txs) ==
    LET d == daily_sales_trend(txs)
    IN  << Line("DAILY SALES TREND", <<>>, <<>>), Line("-", <<>>, <<>>) >>
        \o [k \in 1..Len(d) |->
               Line("day", <<d[k].date>>,
                    <<Fmt2(d[k].revenue, 1), d[k].transaction_count,
                      d[k].unique_customers>>)]
        \o << Line("blank", <<>>, <<>>) >>

EnrichmentLines(enriched) ==
    LET matched    == SelectSeq(enriched, LAMBDA tx : tx.API_Match)
        unmatched  == SelectSeq(enriched, LAMBDA tx : ~tx.API_Match)
        unenriched == [k \in 1..Len(unmatched) |-> unmatched[k].TransactionID]
    IN  << Line("API ENRICHMENT SUMMARY", <<>>, <<>>),
           Line("-", <<>>, <<>>),
           Line("Total Enriched Transactions", <<>>, <<Len(matched)>>),
           Line("Failed Enrichments", <<>>, <<Len(unenriched)>>) >>
        \o (IF unenriched # <<>>
            THEN << Line("Unmatched Transaction IDs", <<>>, <<>>) >>
                 \o [k \in 1..Len(unenriched) |-> Line("- tid", <<unenriched[k]>>, <<>>)]
            ELSE <<>>)

\* the whole document written at time `now`
ReportText(txs, enriched, now) ==
    HeaderLines(txs, now) \o SummaryLines(txs) \o RegionLines(txs)
        \o TopProductLines(txs) \o TopCustomerLines(txs) \o DailyLines(txs)
        \o EnrichmentLines(enriched)

-----------------------------------------------------------------------------
(* generate_sales_report applied to valid transactions and their enrichment *)

\* enrich_sales_data (utils/api_handler.py): each transaction with API_Match
\* set when its ProductID is a key of the product mapping
enrich_sales_data(txs, mapping) ==
    [i \in 1..Len(txs) |->
        [TransactionID |-> txs[i].TransactionID,
         ProductID     |-> txs[i].ProductID,
         API_Match     |-> txs[i].ProductID \in mapping]]

\* the keys of the product mapping handed to enrich_sales_data
ProductMappings == { {}, {<<"P", "1">>} }

\* valid transactions; product A sells at 1 and product B at 2
ReportTxPool ==
    {tx \in TxPool :
        /\ tx.Quantity > 0
        /\ tx.UnitPrice = IF tx.ProductName = Str("A") THEN 1 ELSE 2}

\* two readings of the clock
Clock == {<<"1", "0", "-", "0", "0">>, <<"1", "0", "-", "0", "1">>}

\* the report left by an earlier run
OldReport == [exists |-> TRUE, content |-> <<Line("OLD REPORT", <<>>, <<>>)>>]

InitReport ==
    /\ pc = "report_start"
    /\ raw_lines = <<>>
    /\ transactions \in SeqsUpTo(ReportTxPool, MaxTx)
    /\ \E m \in ProductMappings :
          enriched_transactions = enrich_sales_data(transactions, m)
    /\ file = OldReport
    /\ handle = "none"
    /\ report = Pending
    /\ MainNotRun
    /\ region = None
    /\ min_amount = None
    /\ max_amount = None
    /\ idx = 0
    /\ valid_transactions = <<>>
    /\ invalid_count = 0
    /\ filtered_by_region = 0
    /\ filtered_by_amount = 0
    /\ filter_summary = None
    /\ total_revenue = Pending
    /\ region_stats = Pending
    /\ daily_stats = Pending
    /\ peak = Pending
    /\ top_n = 0
    /\ top_products = Pending

reportFrame == <<raw_lines, transactions, validateVars, aggVars, enriched_transactions,
                 mainVars>>

\* an OSError leaves the with block: the file object is closed on the way out
\* and the exception propagates to the caller
WriteFails ==
    /\ handle' = "closed"
    /\ report' = Raised("OSError")
    /\ pc' = "report_raised"
    /\ UNCHANGED file

WriteAppends(lines, next) ==
    /\ file' = [file EXCEPT !.content = @ \o lines]
    /\ pc' = next
    /\ UNCHANGED <<handle, report>>

\* open(output_file, "w"): the file is created or truncated, or open raises
\* and the file is left as it was
OpenReport ==
    /\ pc = "report_start"
    /\ \/ /\ file' = [exists |-> TRUE, content |-> <<>>]
          /\ handle' = "open"
          /\ pc' = "write_header"
          /\ UNCHANGED report
       \/ /\ report' = Raised("OSError")
          /\ pc' = "report_raised"
          /\ UNCHANGED <<file, handle>>
    /\ UNCHANGED reportFrame

WriteHeader ==
    /\ pc = "write_header"
    /\ \/ \E now \in Clock :
            WriteAppends(HeaderLines(transactions, now), "write_summary")
       \/ WriteFails
    /\ UNCHANGED reportFrame

WriteSummary ==
    /\ pc = "write_summary"
    /\ \/ WriteAppends(SummaryLines(transactions), "write_regions")
       \/ WriteFails
    /\ UNCHANGED reportFrame

WriteRegions ==
    /\ pc = "write_regions"
    /\ \/ WriteAppends(RegionLines(transactions), "write_products")
       \/ WriteFails
    /\ UNCHANGED reportFrame

WriteTopProducts ==
    /\ pc = "write_products"
    /\ \/ WriteAppends(TopProductLines(transactions), "write_customers")
       \/ WriteFails
    /\ UNCHANGED reportFrame

WriteTopCustomers ==
    /\ pc = "write_customers"
    /\ \/ WriteAppends(TopCustomerLines(transactions), "write_daily")
       \/ WriteFails
    /\ UNCHANGED reportFrame

WriteDaily ==
    /\ pc = "write_daily"
    /\ \/ WriteAppends(DailyLines(transactions), "write_enrichment")
       \/ WriteFails
    /\ UNCHANGED reportFrame

WriteEnrichment ==
    /\ pc = "write_enrichment"
    /\ \/ WriteAppends(EnrichmentLines(enriched_transactions), "close")
       \/ WriteFails
    /\ UNCHANGED reportFrame

\* the with block ends: the file object is closed and the function returns
CloseReport ==
    /\ pc = "close"
    /\ handle' = "closed"
    /\ report' = Returned(<<>>)
    /\ pc' = "report_done"
    /\ UNCHANGED <<file, reportFrame>>

NextReport ==
    \/ OpenReport
    \/ WriteHeader
    \/ WriteSummary
    \/ WriteRegions
    \/ WriteTopProducts
    \/ WriteTopCustomers
    \/ WriteDaily
    \/ WriteEnrichment
    \/ CloseReport

SpecReport == InitReport /\ [][NextReport]_vars

-----------------------------------------------------------------------------
(* Claims about generate_sales_report (SpecReport) *)

RegionLinesOf(content) == SelectSeq(content, LAMBDA l : l.tag = "region")

RegionsWritten ==
    pc \in {"write_products", "write_customers", "write_daily",
            "write_enrichment", "close", "report_done"}

\* C9: the lines of the Region-Wise Performance section of the report are in
\* non-increasing order of the region's revenue.
C9_RegionLinesByRevenueDescending ==
    RegionsWritten =>
        LET rl == RegionLinesOf(file.content)
        IN  \A k \in 1..(Len(rl) - 1) : rl[k].nums[1] >= rl[k + 1].nums[1]

\* C10: when every step succeeds the file holds the whole document; when
\* opening or a write fails the file does not hold a partial document, and
\* the file handle is released.
C10_ReportWrittenAtomically ==
    /\ report.outcome = "returned" =>
         /\ handle = "closed"
         /\ \E now \in Clock :
              file.content = ReportText(transactions, enriched_transactions, now)
    /\ report.outcome = "OSError" =>
         /\ handle # "open"
         /\ \/ file = OldReport
            \/ \E now \in Clock :
                 file.content = ReportText(transactions, enriched_transactions, now)

-----------------------------------------------------------------------------
(* read_sales_data and main: the whole pipeline, run twice *)

Whitespace == {" ", "\n"}

\* Python str.strip()
RECURSIVE lstrip(_)
lstrip(s) ==
    IF s # <<>> /\ Head(s) \in Whitespace THEN lstrip(Tail(s)) ELSE s

RECURSIVE rstrip(_)
rstrip(s) ==
    IF s # <<>> /\ Last(s) \in Whitespace THEN rstrip(Front(s)) ELSE s

strip(s) == rstrip(lstrip(s))

\* lines[1:]
SliceFrom1(lines) == IF lines = <<>> THEN <<>> ELSE Tail(lines)

\* the loop over lines[1:]: each line stripped, the empty ones left out
CleanedLines(lines) ==
    LET rest     == SliceFrom1(lines)
        stripped == [i \in 1..Len(rest) |-> strip(rest[i])]
    IN  SelectSeq(stripped, LAMBDA l : l # <<>>)

encodings == <<"utf-8", "latin-1", "cp1252">>

\* whether the bytes of the file decode under the encoding: latin-1 maps every
\* byte, utf-8 only well-formed sequences
Decodes(f, encoding) == encoding = "utf-8" => f.utf8

\* read_sales_data from the encoding `k` of the loop on: what it returns or
\* raises and what it prints.  A missing file makes open raise
\* FileNotFoundError, which is caught; any other OSError is not caught.
RECURSIVE ReadFrom(_, _)
ReadFrom(f, k) ==
    IF k > Len(encodings)
    THEN [result  |-> Returned(<<>>),
          printed |-> <<Line("Error: Unable to read file", <<>>, <<>>)>>]
    ELSE IF f.status = "missing"
    THEN [result  |-> Returned(<<>>),
          printed |-> <<Line("Error: File not found", <<>>, <<>>)>>]
    ELSE IF f.status = "denied"
    THEN [result |-> Raised("PermissionError"), printed |-> <<>>]
    ELSE IF ~Decodes(f, encodings[k])
    THEN ReadFrom(f, k + 1)
    ELSE [result |-> Returned(CleanedLines(f.lines)), printed |-> <<>>]

read_sales_data(f) == ReadFrom(f, 1)

\* "TID|Date": the header line of the input file
FileHeader == <<"T", "I", "D", "|", "D", "a", "t", "e", "\n">>

\* lines of the input file as readlines() gives them: the header, a valid row
\* of region S, a valid row of region W with spaces around it and no newline,
\* a row with a negative quantity, and a blank line
FileLinePool ==
    {FileHeader,
     LineGoodS \o <<"\n">>,
     <<" ">> \o LineSmall \o <<" ">>,
     LineNegQty \o <<"\n">>,
     <<"\n">>}

\* the input file: missing, unreadable, or present with up to MaxLines lines
\* after its first line
InputFiles ==
    {[status |-> "missing", utf8 |-> TRUE, lines |-> <<>>],
     [status |-> "denied", utf8 |-> TRUE, lines |-> <<>>]}
    \cup {[status |-> "ok", utf8 |-> u, lines |-> l] :
             u \in BOOLEAN, l \in SeqsUpTo(FileLinePool, MaxLines + 1)}

\* fetch_all_products (utils/api_handler.py): the catalog's products, or the
\* call fails
CatalogResponses ==
    {Raised("CatalogError"),
     Returned(<<>>),
     Returned(<<[id |-> <<"P", "1">>]>>)}

\* create_product_mapping (utils/api_handler.py): the products by identifier;
\* here the identifiers
create_product_mapping(products) == {products[i].id : i \in 1..Len(products)}

InitMain ==
    /\ pc = "main_start"
    /\ input_file \in InputFiles
    /\ catalog \in CatalogResponses
    /\ product_mapping = {}
    /\ stdout = <<>>
    /\ raised = None
    /\ main_result = Pending
    /\ failed_stage = None
    /\ run = 1
    /\ prev_report = None
    /\ raw_lines = <<>>
    /\ transactions = <<>>
    /\ region = None
    /\ min_amount = None
    /\ max_amount = None
    /\ idx = 0
    /\ valid_transactions = <<>>
    /\ invalid_count = 0
    /\ filtered_by_region = 0
    /\ filtered_by_amount = 0
    /\ filter_summary = None
    /\ total_revenue = Pending
    /\ region_stats = Pending
    /\ daily_stats = Pending
    /\ peak = Pending
    /\ top_n = 0
    /\ top_products = Pending
    /\ enriched_transactions = <<>>
    /\ file = NoFile
    /\ handle = "none"
    /\ report = Pending

\* what a run of main does not change: its input, the catalog's answer, and
\* the record of the run before it
runFrame == <<input_file, catalog, run, prev_report>>

\* lines 17-21: raw_lines = read_sales_data("data/sales_data.txt")
MainRead ==
    /\ pc = "main_start"
    /\ LET r == read_sales_data(input_file)
       IN  IF r.result.outcome = "returned"
           THEN /\ raw_lines' = r.result.value
                /\ stdout' = stdout \o <<Line("Starting", <<>>, <<>>)>> \o r.printed
                               \o <<Line("Read", <<>>, <<Len(r.result.value)>>)>>
                /\ failed_stage' = IF r.printed # <<>> THEN Some("read") ELSE None
                /\ pc' = "start"
                /\ UNCHANGED raised
           ELSE /\ raised' = Some(r.result.outcome)
                /\ stdout' = stdout \o <<Line("Starting", <<>>, <<>>)>> \o r.printed
                /\ failed_stage' = Some("read")
                /\ pc' = "main_except"
                /\ UNCHANGED raw_lines
    /\ UNCHANGED <<transactions, validateVars, aggVars, reportVars, runFrame,
                   product_mapping, main_result>>

\* lines 25-28: validate_and_filter(transactions) is entered without filters
MainValidateBegin ==
    /\ pc = "parsed"
    /\ stdout' = Append(stdout, Line("Parsed", <<>>, <<Len(transactions)>>))
    /\ region' = None
    /\ min_amount' = None
    /\ max_amount' = None
    /\ valid_transactions' = <<>>
    /\ invalid_count' = 0
    /\ filtered_by_region' = 0
    /\ filtered_by_amount' = 0
    /\ idx' = 0
    /\ pc' = "validate_loop"
    /\ UNCHANGED <<raw_lines, transactions, filter_summary, aggVars, reportVars,
                   runFrame, product_mapping, raised, main_result, failed_stage>>

\* lines 29-35: api_products = fetch_all_products() and
\* product_mapping = create_product_mapping(api_products)
MainFetch ==
    /\ pc = "validated"
    /\ LET summary == filter_summary[1]
           printed == Line("Validation Summary", <<>>,
                           <<summary.total_input, summary.invalid,
                             summary.filtered_by_region,
                             summary.filtered_by_amount, summary.final_count>>)
       IN  IF catalog.outcome = "returned"
           THEN /\ product_mapping' = create_product_mapping(catalog.value)
                /\ stdout' = stdout \o <<printed,
                               Line("Successfully fetched", <<>>,
                                    <<Len(catalog.value)>>)>>
                /\ pc' = "fetched"
                /\ UNCHANGED <<raised, failed_stage>>
           ELSE /\ raised' = Some(catalog.outcome)
                /\ failed_stage' = Some("catalog")
                /\ stdout' = Append(stdout, printed)
                /\ pc' = "main_except"
                /\ UNCHANGED product_mapping
    /\ UNCHANGED <<raw_lines, transactions, validateVars, aggVars, reportVars,
                   runFrame, main_result>>

\* lines 38-39: enriched_transactions = enrich_sales_data(valid_transactions,
\* product_mapping)
MainEnrich ==
    /\ pc = "fetched"
    /\ enriched_transactions' = enrich_sales_data(valid_transactions, product_mapping)
    /\ stdout' = Append(stdout, Line("Enriched", <<>>, <<Len(valid_transactions)>>))
    /\ pc' = "enriched"
    /\ UNCHANGED <<raw_lines, transactions, validateVars, aggVars, file, handle,
                   report, runFrame, product_mapping, raised, main_result,
                   failed_stage>>

\* lines 42-43: save_enriched_data(enriched_transactions) writes
\* data/enriched_sales_data.txt, or raises
MainSave ==
    /\ pc = "enriched"
    /\ \/ /\ stdout' = Append(stdout, Line("Enriched sales data saved", <<>>, <<>>))
          /\ pc' = "saved"
          /\ UNCHANGED <<raised, failed_stage>>
       \/ /\ raised' = Some("OSError")
          /\ failed_stage' = Some("save")
          /\ pc' = "main_except"
          /\ UNCHANGED stdout
    /\ UNCHANGED <<raw_lines, transactions, validateVars, aggVars, reportVars,
                   runFrame, product_mapping, main_result>>

\* lines 46-50: generate_sales_report is called with
\* transactions=valid_transactions
MainCallReport ==
    /\ pc = "saved"
    /\ transactions' = valid_transactions
    /\ pc' = "report_start"
    /\ UNCHANGED <<raw_lines, validateVars, aggVars, reportVars, mainVars>>

\* lines 52-53: the report call returned
MainComplete ==
    /\ pc = "report_done"
    /\ stdout' = stdout \o <<Line("Report generated", <<>>, <<>>),
                             Line("PROCESS COMPLETE", <<>>, <<>>)>>
    /\ main_result' = Returned(None)
    /\ pc' = "main_done"
    /\ UNCHANGED <<raw_lines, transactions, validateVars, aggVars, reportVars,
                   runFrame, product_mapping, raised, failed_stage>>

\* lines 55-57: `except Exception as e` prints the exception; main then
\* returns normally
MainExcept ==
    /\ pc \in {"main_except", "report_raised"}
    /\ LET e == IF pc = "report_raised" THEN report.outcome ELSE raised[1]
       IN  stdout' = stdout \o <<Line("ERROR OCCURRED", <<>>, <<>>),
                                 Line(e, <<>>, <<>>)>>
    /\ failed_stage' = IF pc = "report_raised" THEN Some("report") ELSE failed_stage
    /\ raised' = None
    /\ main_result' = Returned(None)
    /\ pc' = "main_done"
    /\ UNCHANGED <<raw_lines, transactions, validateVars, aggVars, reportVars,
                   runFrame, product_mapping>>

\* main is run a second time: same input file, same catalog answer; the
\* output file is as the first run left it
MainRestart ==
    /\ pc = "main_done"
    /\ run = 1
    /\ run' = 2
    /\ prev_report' = IF report.outcome = "returned"
                      THEN Some(file.content) ELSE None
    /\ pc' = "main_start"
    /\ product_mapping' = {}
    /\ stdout' = <<>>
    /\ raised' = None
    /\ main_result' = Pending
    /\ failed_stage' = None
    /\ raw_lines' = <<>>
    /\ transactions' = <<>>
    /\ region' = None
    /\ min_amount' = None
    /\ max_amount' = None
    /\ idx' = 0
    /\ valid_transactions' = <<>>
    /\ invalid_count' = 0
    /\ filtered_by_region' = 0
    /\ filtered_by_amount' = 0
    /\ filter_summary' = None
    /\ enriched_transactions' = <<>>
    /\ handle' = "none"
    /\ report' = Pending
    /\ UNCHANGED <<input_file, catalog, file, aggVars>>

NextMain ==
    \/ MainRead
    \/ ParseTransactions
    \/ MainValidateBegin
    \/ ValidateIter
    \/ ValidateReturn
    \/ MainFetch
    \/ MainEnrich
    \/ MainSave
    \/ MainCallReport
    \/ OpenReport
    \/ WriteHeader
    \/ WriteSummary
    \/ WriteRegions
    \/ WriteTopProducts
    \/ WriteTopCustomers
    \/ WriteDaily
    \/ WriteEnrichment
    \/ CloseReport
    \/ MainComplete
    \/ MainExcept
    \/ MainRestart

SpecMain == InitMain /\ [][NextMain]_vars

-----------------------------------------------------------------------------
(* Claims about main (SpecMain) *)

\* C11: two runs of the whole pipeline on the same input lines and the same
\* catalog answer produce the same report text, character for character.
C11_TwoRunsSameReport ==
    (/\ run = 2
     /\ pc = "main_done"
     /\ report.outcome = "returned"
     /\ prev_report # None)
        => file.content = prev_report[1]

Printed(tag) == \E i \in 1..Len(stdout) : stdout[i].tag = tag

\* C12: once a stage of the pipeline has failed (the input file could not be
\* read, the catalog call failed, the report file could not be opened or
\* written), no later stage runs, main ends in a failure handed to its caller
\* that names the stage, and the PROCESS COMPLETE message is never printed.
C12_StageFailureSurfaced ==
    failed_stage # None =>
        /\ pc \in {"main_except", "main_done"}
        /\ ~Printed("PROCESS COMPLETE")
        /\ pc = "main_done" => main_result.outcome \notin {"pending", "returned"}

====
